---- MODULE Spec2Model ----
(***************************************************************************)
(* Callback contracts of the closure practice programs: ordered traversal  *)
(* (ShoppingCart::traverse_items, Map::explore), in-place filtering        *)
(* (retain), lazy fallback (unwrap_or_else, get_or_compute), gated         *)
(* consumption (Vault::unlock) and single-use closures (FnOnce).           *)
(*                                                                         *)
(* One behaviour of the model is one run of one operation: Init picks the  *)
(* operation (prog), its receiver and its callback; the actions are the    *)
(* steps of that operation's body.                                         *)
(***************************************************************************)
EXTENDS Integers, Sequences, FiniteSets, TLC

\* ------------------------------------------------------------------ bounds
\* Longest sequence (cart items, locations) a run starts from.
MaxLen == 3

\* Width of usize in the model.  The program's usize has 64 bits; only the
\* wrap-around of 0 - 1 matters, and every length stays far below 2^UsizeBits.
UsizeBits == 16

UsizeModulus == 2 ^ UsizeBits

\* Largest count handed to apply_many / apply_mut_times.
MaxCount == 4

\* Longest Vec<Option<i32>> resolved element by element.
MaxValues == 5

\* Sequences over S of length 0..n.
SeqUpTo(S, n) == UNION {[1..k -> S] : k \in 0..n}

\* --------------------------------------------------------------- variables
VARIABLES
    prog,            \* the operation this run executes
    pc,              \* position inside the operation's body
    calls,           \* log of callback invocations, in invocation order
    \* ShoppingCart::traverse_items
    item,            \* self.item : Vec<SupermarketItem>
    start_index,     \* local start_index
    operation,       \* the closure passed as `operation`
    total_price,     \* captured by the closure |items| total_price += items.price
    \* Map::explore
    location,        \* self.location : &[Location]
    final_index,     \* local final_index
    current_index,   \* local current_index
    action,          \* the closure passed as `action`
    total_treasure,  \* captured by |location| total_treasure = location.treasure
    city_names,      \* captured by |location| city_names.push(location.name.clone())
    overflow_checks, \* build profile: TRUE = overflow checks on (debug), FALSE = wrapping (release)
    \* retain (Vec::retain, String::retain)
    vec,             \* the collection retain filters in place
    original,        \* the collection as it was when retain was called
    original_len,    \* its length when retain was called
    processed_len,   \* number of elements the pass has examined
    deleted_cnt,     \* number of elements the pass has removed
    predicate,       \* the closure passed to retain
    removed_count,   \* captured by |&score| { ... removed_count += 1 ... }
    deleted_characters, \* captured sink of the closure holding_char
    \* lazy fallback (get_or_compute, Option::unwrap_or_else, Result::unwrap_or_else)
    cached,          \* the Option / Result being resolved
    compute,         \* the closure passed as fallback
    counter,         \* captured by || { counter += 1; counter * 100 }
    resolved,        \* the value the resolver returned
    \* Vault::unlock
    vault,           \* the Vault { password, treasure } main constructs
    vault_owner,     \* who owns the vault: main, unlock (as self), or nobody (dropped)
    procedure,       \* the closure passed as `procedure`
    stdin_line,      \* the line password_hack reads from standard input
    saved_password,  \* captured by move || saved_password
    user_password,   \* local user_password
    result,          \* the Option<String> unlock returned
    \* single-use closures (FnOnce)
    callee,          \* what invokes the closure: the enclosing code or a function taking FnOnce
    binding,         \* the local the closure captures by move (name, names, greeting)
    closure,         \* the FnOnce closure: "Unbuilt", "Unused" until invoked, then "Spent"
    captured,        \* the String the closure owns (moved into it at construction)
    body_runs,       \* how many times the closure's body has executed
    returned,        \* what the invocation handed back
    \* straight-line mains (closure_4 main, closure_12 main, example_2_fnmut_trait, ...)
    position,        \* index of the next statement of the body
    index,           \* local index of closure_4 main (let index = num[2])
    captured_vec,    \* the Vec the closures capture by &mut (num, our_vec)
    captured_count,  \* the integer the closures capture by &mut (counter, count)
    live,            \* closures that hold their mutable borrow: defined and called again later
    aliased,         \* source lines of direct accesses made while a capturing closure was live
    \* example_2_threading
    data,            \* the Vec main builds and the closure captures by move
    data_owner,      \* who owns data: main, the spawned thread, or nobody (dropped)
    thread_pc,       \* the spawned thread: "unborn", "ready", "ran", "exited"
    thread_runs,     \* how many times the closure's body has executed
    \* values.into_iter().map(|opt| opt.unwrap_or_else(..)).collect()
    values,          \* the Vec<Option<i32>> being resolved
    taken,           \* how many elements the iterator has handed to the map closure
    results,         \* the resolved values collected so far
    \* ShoppingCart::checkout
    cart_owner,      \* who owns the cart: main, the operation (as cart), or nobody (dropped)
    checkout_calls,  \* log of the invocations of checkout's operation: the cart each was given
    \* apply_many / apply_mut_times
    applier,         \* which of the two functions runs
    count,           \* the parameter count : i32
    range_next,      \* the next value of the range 0..count (the loop variable i)
    apply_total      \* total, captured by |x| { total += x; ... }

travVars == <<item, start_index, operation, total_price>>
explVars == <<location, final_index, current_index, action, total_treasure,
              city_names, overflow_checks>>
retVars == <<vec, original, original_len, processed_len, deleted_cnt, predicate,
             removed_count, deleted_characters>>
lazyVars == <<cached, compute, counter, resolved>>
vaultVars == <<vault, vault_owner, procedure, stdin_line, saved_password,
               user_password, result>>
onceVars == <<callee, binding, closure, captured, body_runs, returned>>
scriptVars == <<position, index, captured_vec, captured_count, live, aliased>>
threadVars == <<data, data_owner, thread_pc, thread_runs>>
mapVars == <<values, taken, results>>
checkoutVars == <<cart_owner, checkout_calls>>
applyVars == <<applier, count, range_next, apply_total>>
vars == <<prog, pc, calls, travVars, explVars, retVars, lazyVars, vaultVars, onceVars, scriptVars, threadVars, mapVars, checkoutVars, applyVars>>

\* The variables of the other operations, which an operation leaves alone.
travOthers == <<explVars, retVars, lazyVars, vaultVars, onceVars, scriptVars, threadVars, mapVars, checkoutVars, applyVars>>
explOthers == <<travVars, retVars, lazyVars, vaultVars, onceVars, scriptVars, threadVars, mapVars, checkoutVars, applyVars>>
retOthers == <<travVars, explVars, lazyVars, vaultVars, onceVars, scriptVars, threadVars, mapVars, checkoutVars, applyVars>>
lazyOthers == <<travVars, explVars, retVars, vaultVars, onceVars, scriptVars, threadVars, mapVars, checkoutVars, applyVars>>
vaultOthers == <<travVars, explVars, retVars, lazyVars, onceVars, scriptVars, threadVars, mapVars, checkoutVars, applyVars>>
onceOthers == <<travVars, explVars, retVars, lazyVars, vaultVars, scriptVars, threadVars, mapVars, checkoutVars, applyVars>>
scriptOthers == <<travVars, explVars, retVars, lazyVars, vaultVars, onceVars, threadVars, mapVars, checkoutVars, applyVars>>
threadOthers == <<travVars, explVars, retVars, lazyVars, vaultVars, onceVars, scriptVars, mapVars, checkoutVars, applyVars>>
mapOthers == <<travVars, explVars, retVars, lazyVars, vaultVars, onceVars, scriptVars, threadVars, checkoutVars, applyVars>>
checkoutOthers == <<travVars, explVars, retVars, lazyVars, vaultVars, onceVars, scriptVars, threadVars, mapVars, applyVars>>
applyOthers == <<travVars, explVars, retVars, lazyVars, vaultVars, onceVars, scriptVars, threadVars, mapVars, checkoutVars>>

\* A result slot before the operation has returned, and after.
Unset == [tag |-> "unset"]
Returned(v) == [tag |-> "returned", val |-> v]

\* Option<T> and Result<T, E> values.
None == [tag |-> "None"]
Some(v) == [tag |-> "Some", val |-> v]
Ok(v) == [tag |-> "Ok", val |-> v]
Err(e) == [tag |-> "Err", err |-> e]

\* The capability tier of each callback in the sources: what it does with
\* what it captures.  Read-only (Fn): captures nothing or only reads;
\* Mutating (FnMut): modifies a captured local; Consuming (FnOnce): moves a
\* captured value out when called.
Tier(callback) ==
    CASE callback \in {"auto_unlock", "password_hack", "constant", "panicking",
                       "minus_one", "organic_fruits"} -> "ReadOnly"
      [] callback \in {"counting", "num_arr_78", "num_arr_93", "num_arr_105", "time",
                       "increment", "action"} -> "Mutating"
      [] callback \in {"use_saved"} -> "Consuming"

\* ------------------------------------------------------------ main.rs data
\* SupermarketItem { name, price }.  Prices are in 1/10000 of a currency unit,
\* so that 3.99 is 39900 and the discount factor 0.85 is exact.
ItemNames == {"APPLE", "BANANA"}
ItemPrices == {39900, 29900}
SupermarketItem == [name : ItemNames, price : ItemPrices]

\* str::to_lowercase on the names of the model.
ToLowercase(s) ==
    CASE s = "APPLE"  -> "apple"
      [] s = "BANANA" -> "banana"
      [] OTHER        -> s

\* The closures main passes to traverse_items, applied to one item with the
\* captured total; each yields the item and the captured state after the call.
Operations == {"discount", "lowercase", "sum"}

ApplyOperation(op, it, total) ==
    CASE op = "discount"  -> [it |-> [it EXCEPT !.price = (it.price * 85) \div 100],
                              total |-> total]
      [] op = "lowercase" -> [it |-> [it EXCEPT !.name = ToLowercase(it.name)],
                              total |-> total]
      [] op = "sum"       -> [it |-> it, total |-> total + it.price]

\* ------------------------------------------------------- closure_11.rs data
LocationNames == {"Abu Dhabi", "Al ain"}
Treasures == {5, 10}
Location == [name : LocationNames, treasure : Treasures]

Actions == {"overwrite", "collect_names"}

\* usize subtraction a - b when overflow checks are off.
WrappingSub(a, b) == (a - b + UsizeModulus) % UsizeModulus

\* ------------------------------------------------------------------- idle
\* Values of the variables of the operations a run does not execute.
TravIdle ==
    /\ item = <<>>
    /\ start_index = 0
    /\ operation = "none"
    /\ total_price = 0

ExplIdle ==
    /\ location = <<>>
    /\ final_index = 0
    /\ current_index = 0
    /\ action = "none"
    /\ total_treasure = 0
    /\ city_names = <<>>
    /\ overflow_checks = TRUE

RetIdle ==
    /\ vec = <<>>
    /\ original = <<>>
    /\ original_len = 0
    /\ processed_len = 0
    /\ deleted_cnt = 0
    /\ predicate = "none"
    /\ removed_count = 0
    /\ deleted_characters = <<>>

LazyIdle ==
    /\ cached = None
    /\ compute = "none"
    /\ counter = 0
    /\ resolved = Unset

VaultIdle ==
    /\ vault = [password |-> "", treasure |-> ""]
    /\ vault_owner = "nobody"
    /\ procedure = "none"
    /\ stdin_line = ""
    /\ saved_password = ""
    /\ user_password = ""
    /\ result = Unset

OnceIdle ==
    /\ callee = "none"
    /\ binding = ""
    /\ closure = "none"
    /\ captured = ""
    /\ body_runs = 0
    /\ returned = Unset

ScriptIdle ==
    /\ position = 0
    /\ index = 0
    /\ captured_vec = <<>>
    /\ captured_count = 0
    /\ live = {}
    /\ aliased = {}

ThreadIdle ==
    /\ data = <<>>
    /\ data_owner = "nobody"
    /\ thread_pc = "unborn"
    /\ thread_runs = 0

MapIdle ==
    /\ values = <<>>
    /\ taken = 0
    /\ results = <<>>

CheckoutIdle ==
    /\ cart_owner = "nobody"
    /\ checkout_calls = <<>>

ApplyIdle ==
    /\ applier = "none"
    /\ count = 0
    /\ range_next = 0
    /\ apply_total = 0

\* ------------------------------------------- ShoppingCart::traverse_items
InitTraverse ==
    /\ prog = "traverse_items"
    /\ pc = "start"
    /\ calls = <<>>
    /\ item \in SeqUpTo(SupermarketItem, MaxLen)
    /\ start_index = 0
    /\ operation \in Operations
    /\ total_price = 0
    /\ ExplIdle /\ RetIdle /\ LazyIdle /\ VaultIdle /\ OnceIdle /\ ScriptIdle /\ ThreadIdle /\ MapIdle /\ CheckoutIdle /\ ApplyIdle

\* let mut start_index = 0;
TraverseEnter ==
    /\ prog = "traverse_items" /\ pc = "start"
    /\ start_index' = 0
    /\ pc' = "loop"
    /\ UNCHANGED <<prog, calls, item, operation, total_price, travOthers>>

\* start_index += 1
TraverseNextIndexSkip(i) == i + 2

TraverseNextIndex(i) == i + 1

\* the loop condition: start_index < self.item.len()
TraverseCondInclusive(i, n) == i <= n

TraverseCond(i, n) == i < n

\* A traversal that hands the callback the rest of the cart from start_index
\* on, so that the call also reaches the following item.
TraverseStepExposesNext ==
    /\ prog = "traverse_items" /\ pc = "loop"
    /\ TraverseCond(start_index, Len(item))
    /\ LET r == ApplyOperation(operation, item[start_index + 1], total_price)
           n == IF start_index + 2 <= Len(item) THEN start_index + 2 ELSE start_index + 1
           q == ApplyOperation(operation, item[n], r.total)
       IN  /\ item' = [[item EXCEPT ![start_index + 1] = r.it] EXCEPT ![n] = q.it]
           /\ total_price' = r.total
           /\ calls' = Append(calls, start_index)
           /\ start_index' = TraverseNextIndex(start_index)
           /\ pc' = "loop"
    /\ UNCHANGED <<prog, operation, travOthers>>

\* while start_index < self.item.len() { operation(&mut self.item[start_index]); start_index += 1 }
\* The indexing self.item[start_index] is bounds-checked.
TraverseStep ==
    /\ prog = "traverse_items" /\ pc = "loop"
    /\ TraverseCond(start_index, Len(item))
    /\ IF start_index >= Len(item)
         THEN /\ pc' = "panicked"
              /\ UNCHANGED <<calls, item, start_index, total_price>>
         ELSE LET r == ApplyOperation(operation, item[start_index + 1], total_price)
              IN  /\ item' = [item EXCEPT ![start_index + 1] = r.it]
                  /\ total_price' = r.total
                  /\ calls' = Append(calls, start_index)
                  /\ start_index' = TraverseNextIndex(start_index)
                  /\ pc' = "loop"
    /\ UNCHANGED <<prog, operation, travOthers>>

\* the loop condition fails: traverse_items returns
TraverseReturn ==
    /\ prog = "traverse_items" /\ pc = "loop"
    /\ ~TraverseCond(start_index, Len(item))
    /\ pc' = "done"
    /\ UNCHANGED <<prog, calls, travVars, travOthers>>

\* ---------------------------------------------------------- Map::explore
InitExplore ==
    /\ prog = "explore"
    /\ pc = "start"
    /\ calls = <<>>
    /\ location \in SeqUpTo(Location, MaxLen)
    /\ final_index = 0
    /\ current_index = 0
    /\ action \in Actions
    /\ total_treasure = 0
    /\ city_names = <<>>
    /\ overflow_checks \in BOOLEAN
    /\ TravIdle /\ RetIdle /\ LazyIdle /\ VaultIdle /\ OnceIdle /\ ScriptIdle /\ ThreadIdle /\ MapIdle /\ CheckoutIdle /\ ApplyIdle

\* let final_index = self.location.len() - 1;  let mut current_index = 0;
\* With overflow checks the subtraction 0 - 1 panics; without them it wraps.
ExploreEnter ==
    /\ prog = "explore" /\ pc = "start"
    /\ IF Len(location) = 0 /\ overflow_checks
         THEN /\ pc' = "panicked"
              /\ UNCHANGED final_index
         ELSE /\ pc' = "loop"
              /\ final_index' = WrappingSub(Len(location), 1)
    /\ current_index' = 0
    /\ UNCHANGED <<prog, calls, location, action, total_treasure, city_names,
                   overflow_checks, explOthers>>

\* current_index += 1
ExploreNextIndex(i) == i + 1

\* An exploration whose callback adds the treasure up (+= in place of =).
ExploreStepAccumulates ==
    /\ prog = "explore" /\ pc = "loop"
    /\ current_index <= final_index
    /\ IF current_index >= Len(location)
         THEN /\ pc' = "panicked"
              /\ UNCHANGED <<calls, current_index, total_treasure, city_names>>
         ELSE LET current_location == location[current_index + 1]
              IN  /\ total_treasure' = IF action = "overwrite"
                                         THEN total_treasure + current_location.treasure
                                         ELSE total_treasure
                  /\ city_names' = IF action = "collect_names"
                                     THEN Append(city_names, current_location.name)
                                     ELSE city_names
                  /\ calls' = Append(calls, current_index)
                  /\ current_index' = ExploreNextIndex(current_index)
                  /\ pc' = "loop"
    /\ UNCHANGED <<prog, location, final_index, action, overflow_checks, explOthers>>

\* An exploration that may revisit any location up to the current one, so
\* that two runs over the same slice can differ.
ExploreStepAnyLocation ==
    /\ prog = "explore" /\ pc = "loop"
    /\ current_index <= final_index
    /\ current_index < Len(location)
    /\ \E i \in 0..current_index :
         LET current_location == location[i + 1]
         IN  /\ total_treasure' = IF action = "overwrite"
                                    THEN current_location.treasure
                                    ELSE total_treasure
             /\ city_names' = IF action = "collect_names"
                                THEN Append(city_names, current_location.name)
                                ELSE city_names
    /\ calls' = Append(calls, current_index)
    /\ current_index' = ExploreNextIndex(current_index)
    /\ pc' = "loop"
    /\ UNCHANGED <<prog, location, final_index, action, overflow_checks, explOthers>>

\* while current_index <= final_index {
\*     let current_location = &self.location[current_index];   (bounds-checked)
\*     action(current_location);  current_index += 1 }
ExploreStep ==
    /\ prog = "explore" /\ pc = "loop"
    /\ current_index <= final_index
    /\ IF current_index >= Len(location)
         THEN /\ pc' = "panicked"
              /\ UNCHANGED <<calls, current_index, total_treasure, city_names>>
         ELSE LET current_location == location[current_index + 1]
              IN  /\ total_treasure' = IF action = "overwrite"
                                         THEN current_location.treasure
                                         ELSE total_treasure
                  /\ city_names' = IF action = "collect_names"
                                     THEN Append(city_names, current_location.name)
                                     ELSE city_names
                  /\ calls' = Append(calls, current_index)
                  /\ current_index' = ExploreNextIndex(current_index)
                  /\ pc' = "loop"
    /\ UNCHANGED <<prog, location, final_index, action, overflow_checks, explOthers>>

\* the loop condition fails: explore returns
ExploreReturn ==
    /\ prog = "explore" /\ pc = "loop"
    /\ ~(current_index <= final_index)
    /\ pc' = "done"
    /\ UNCHANGED <<prog, calls, explVars, explOthers>>

\* ----------------------------------------------------------------- retain
\* The closures closure_10 passes to retain, and the elements they are given.
\*   is_odd        |n| n % 2 != 0
\*   passing       |&score| if score >= 50 { true } else { removed_count += 1; false }
\*   holding_char  |value| if value != 'a' { true } else { deleted_characters.push(value); false }
\*   stateful      a closure whose answer depends on captured state the model
\*                 does not track: each call may answer either way
Predicates == {"is_odd", "passing", "holding_char", "stateful"}

Numbers == {1, 2, 42, 95}
Characters == {"P", "a", "Y"}

\* Elements of the collection a predicate is applied to.
ElementsFor(p) == IF p = "holding_char" THEN Characters ELSE Numbers

\* The answers predicate p can give for element e.
Answers(p, e) ==
    CASE p = "is_odd"       -> {e % 2 # 0}
      [] p = "passing"      -> {e >= 50}
      [] p = "holding_char" -> {e # "a"}
      [] p = "stateful"     -> BOOLEAN

\* let mut vec_a = vec![1, 2, 3, 4, 5];  let vec_b = vec![1, 2, 3, 4, 5];
Example8 == <<1, 2, 3, 4, 5>>

\* A filter that pushes each passing element to the front of its output.
FilterCollectReversed(seq, p) ==
    LET F[k \in 0..Len(seq)] ==
          IF k = 0 THEN <<>>
          ELSE IF TRUE \in Answers(p, seq[k]) THEN <<seq[k]>> \o F[k - 1] ELSE F[k - 1]
    IN  F[Len(seq)]

\* vec_b.into_iter().filter(p).collect(): a new Vec of the elements for which
\* the predicate answers true, in iteration order.
FilterCollect(seq, p) ==
    LET F[k \in 0..Len(seq)] ==
          IF k = 0 THEN <<>>
          ELSE IF TRUE \in Answers(p, seq[k]) THEN Append(F[k - 1], seq[k]) ELSE F[k - 1]
    IN  F[Len(seq)]

InitRetain ==
    /\ prog = "retain"
    /\ pc = "start"
    /\ calls = <<>>
    /\ predicate \in Predicates
    /\ vec \in SeqUpTo(ElementsFor(predicate), MaxLen)
                \cup (IF predicate = "is_odd" THEN {Example8} ELSE {})
    /\ original = vec
    /\ original_len = 0
    /\ processed_len = 0
    /\ deleted_cnt = 0
    /\ removed_count = 0
    /\ deleted_characters = <<>>
    /\ TravIdle /\ ExplIdle /\ LazyIdle /\ VaultIdle /\ OnceIdle /\ ScriptIdle /\ ThreadIdle /\ MapIdle /\ CheckoutIdle /\ ApplyIdle

\* retain starts its single pass over the collection
RetainEnter ==
    /\ prog = "retain" /\ pc = "start"
    /\ original_len' = Len(vec)
    /\ processed_len' = 0
    /\ deleted_cnt' = 0
    /\ pc' = "loop"
    /\ UNCHANGED <<prog, calls, vec, original, predicate, removed_count,
                   deleted_characters, retOthers>>

\* The element a kept element is written to: it moves left over the holes.
RetainSlotNoShift(processed, deleted) == processed + 1

RetainSlot(processed, deleted) == processed - deleted + 1

\* A pass whose closure saves the element before deciding, so kept elements
\* reach the sink as well.
RetainStepDivertsKept ==
    /\ prog = "retain" /\ pc = "loop"
    /\ processed_len # original_len
    /\ LET cur == vec[processed_len + 1]
       IN  \E keep \in Answers(predicate, cur) :
             /\ calls' = Append(calls, [arg |-> cur, ret |-> keep])
             /\ deleted_characters' = IF predicate = "holding_char"
                                        THEN Append(deleted_characters, cur)
                                        ELSE deleted_characters
             /\ IF keep
                  THEN /\ vec' = [vec EXCEPT ![RetainSlot(processed_len, deleted_cnt)] = cur]
                       /\ UNCHANGED <<deleted_cnt, removed_count>>
                  ELSE /\ deleted_cnt' = deleted_cnt + 1
                       /\ removed_count' = IF predicate = "passing"
                                             THEN removed_count + 1
                                             ELSE removed_count
                       /\ UNCHANGED vec
    /\ processed_len' = processed_len + 1
    /\ UNCHANGED <<prog, pc, original, original_len, predicate, retOthers>>

\* The remove-by-index pass that steps over the element following a removed
\* one (the indices shift as elements are removed).
RetainStepSkipsAfterRemoval ==
    /\ prog = "retain" /\ pc = "loop"
    /\ processed_len # original_len
    /\ LET cur == vec[processed_len + 1]
       IN  \E keep \in Answers(predicate, cur) :
             /\ calls' = Append(calls, [arg |-> cur, ret |-> keep])
             /\ IF keep
                  THEN /\ vec' = [vec EXCEPT ![RetainSlot(processed_len, deleted_cnt)] = cur]
                       /\ processed_len' = processed_len + 1
                       /\ UNCHANGED <<deleted_cnt, removed_count, deleted_characters>>
                  ELSE /\ deleted_cnt' = IF processed_len + 2 <= original_len
                                           THEN deleted_cnt + 2
                                           ELSE deleted_cnt + 1
                       /\ processed_len' = IF processed_len + 2 <= original_len
                                             THEN processed_len + 2
                                             ELSE processed_len + 1
                       /\ removed_count' = IF predicate = "passing"
                                             THEN removed_count + 1
                                             ELSE removed_count
                       /\ deleted_characters' = IF predicate = "holding_char"
                                                  THEN Append(deleted_characters, cur)
                                                  ELSE deleted_characters
                       /\ UNCHANGED vec
    /\ UNCHANGED <<prog, pc, original, original_len, predicate, retOthers>>

\* One element is examined: the closure is called with it and answers keep
\* (true) or remove (false); a kept element closes the gap left by the
\* removed ones.
RetainStep ==
    /\ prog = "retain" /\ pc = "loop"
    /\ processed_len # original_len
    /\ LET cur == vec[processed_len + 1]
       IN  \E keep \in Answers(predicate, cur) :
             /\ calls' = Append(calls, [arg |-> cur, ret |-> keep])
             /\ IF keep
                  THEN /\ vec' = [vec EXCEPT ![RetainSlot(processed_len, deleted_cnt)] = cur]
                       /\ UNCHANGED <<deleted_cnt, removed_count, deleted_characters>>
                  ELSE /\ deleted_cnt' = deleted_cnt + 1
                       /\ removed_count' = IF predicate = "passing"
                                             THEN removed_count + 1
                                             ELSE removed_count
                       /\ deleted_characters' = IF predicate = "holding_char"
                                                  THEN Append(deleted_characters, cur)
                                                  ELSE deleted_characters
                       /\ UNCHANGED vec
    /\ processed_len' = processed_len + 1
    /\ UNCHANGED <<prog, pc, original, original_len, predicate, retOthers>>

\* Every element was examined: the collection is cut to the kept elements.
RetainFinish ==
    /\ prog = "retain" /\ pc = "loop"
    /\ processed_len = original_len
    /\ vec' = SubSeq(vec, 1, original_len - deleted_cnt)
    /\ pc' = "done"
    /\ UNCHANGED <<prog, calls, original, original_len, processed_len, deleted_cnt,
                   predicate, removed_count, deleted_characters, retOthers>>

\* ---------------------------------------------------------- lazy fallback
\* The i32 values and error payloads the examples resolve.
Values == {10, 42}
Errors == {"connection failed", "timeout"}

\* The fallback closures of the examples:
\*   constant    || { println!("Computing..."); 999 }
\*   counting    || { counter += 1; counter * 100 }
\*   minus_one   |err| { println!("Error occurred: {}", err); -1 }
\*   panicking   a closure that fails (panics) if it is ever called
OptionFallbacks == {"constant", "counting", "panicking"}
ResultFallbacks == {"minus_one", "panicking"}

\* One call of fallback f with the captured counter c: the value it returns,
\* the counter afterwards, and whether the call panics instead of returning.
CallFallback(f, c) ==
    CASE f = "constant"  -> [ret |-> 999, counter |-> c, panics |-> FALSE]
      [] f = "counting"  -> [ret |-> (c + 1) * 100, counter |-> c + 1, panics |-> FALSE]
      [] f = "minus_one" -> [ret |-> -1, counter |-> c, panics |-> FALSE]
      [] f = "panicking" -> [ret |-> 0, counter |-> c, panics |-> TRUE]

InitGetOrCompute ==
    /\ prog = "get_or_compute"
    /\ pc = "start"
    /\ calls = <<>>
    /\ cached \in {None} \cup {Some(v) : v \in Values}
    /\ compute \in OptionFallbacks
    /\ counter = 0
    /\ resolved = Unset
    /\ TravIdle /\ ExplIdle /\ RetIdle /\ VaultIdle /\ OnceIdle /\ ScriptIdle /\ ThreadIdle /\ MapIdle /\ CheckoutIdle /\ ApplyIdle

InitUnwrapOrElse ==
    /\ prog = "unwrap_or_else"
    /\ pc = "start"
    /\ calls = <<>>
    /\ cached \in {None} \cup {Some(v) : v \in Values}
    /\ compute \in OptionFallbacks
    /\ counter = 0
    /\ resolved = Unset
    /\ TravIdle /\ ExplIdle /\ RetIdle /\ VaultIdle /\ OnceIdle /\ ScriptIdle /\ ThreadIdle /\ MapIdle /\ CheckoutIdle /\ ApplyIdle

InitResultUnwrapOrElse ==
    /\ prog = "result_unwrap_or_else"
    /\ pc = "start"
    /\ calls = <<>>
    /\ cached \in {Ok(v) : v \in Values} \cup {Err(e) : e \in Errors}
    /\ compute \in ResultFallbacks
    /\ counter = 0
    /\ resolved = Unset
    /\ TravIdle /\ ExplIdle /\ RetIdle /\ VaultIdle /\ OnceIdle /\ ScriptIdle /\ ThreadIdle /\ MapIdle /\ CheckoutIdle /\ ApplyIdle

\* The present branch: the contained value is returned, the closure is dropped.
ReturnPresent(val) ==
    /\ resolved' = Returned(val)
    /\ pc' = "done"
    /\ UNCHANGED <<calls, counter>>

\* The absent branch: the closure is called with arg and its value returned.
ReturnFallback(arg) ==
    LET r == CallFallback(compute, counter)
    IN  /\ calls' = Append(calls, [arg |-> arg, ret |-> r.ret])
        /\ counter' = r.counter
        /\ IF r.panics
             THEN pc' = "panicked" /\ UNCHANGED resolved
             ELSE pc' = "done" /\ resolved' = Returned(r.ret)

\* A resolver that evaluates its fallback before looking at the value
\* (the unwrap_or shape).
GetOrComputeEager ==
    /\ prog = "get_or_compute" /\ pc = "start"
    /\ LET r == CallFallback(compute, counter)
       IN  /\ calls' = Append(calls, [arg |-> "()", ret |-> r.ret])
           /\ counter' = r.counter
           /\ IF r.panics
                THEN pc' = "panicked" /\ UNCHANGED resolved
                ELSE /\ pc' = "done"
                     /\ resolved' = Returned(IF cached.tag = "Some" THEN cached.val ELSE r.ret)
    /\ UNCHANGED <<prog, cached, compute, lazyOthers>>

\* A resolver that substitutes the default value without calling the fallback
\* (the unwrap_or_default shape).
GetOrComputeDefault ==
    /\ prog = "get_or_compute" /\ pc = "start"
    /\ ReturnPresent(IF cached.tag = "Some" THEN cached.val ELSE 0)
    /\ UNCHANGED <<prog, cached, compute, lazyOthers>>

\* A resolver that unwraps the value and fails by itself when it is absent
\* (the unwrap shape).
GetOrComputeUnwrap ==
    /\ prog = "get_or_compute" /\ pc = "start"
    /\ IF cached.tag = "Some"
         THEN ReturnPresent(cached.val)
         ELSE pc' = "panicked" /\ UNCHANGED <<calls, counter, resolved>>
    /\ UNCHANGED <<prog, cached, compute, lazyOthers>>

\* match cached { Some(val) => val, None => compute() }
GetOrCompute ==
    /\ prog = "get_or_compute" /\ pc = "start"
    /\ IF cached.tag = "Some"
         THEN ReturnPresent(cached.val)
         ELSE ReturnFallback("()")
    /\ UNCHANGED <<prog, cached, compute, lazyOthers>>

\* match v { Some(n) => n, None => fallback() } as an expression: the value
\* it yields, how many times it invoked the fallback, the captured counter
\* afterwards and whether it panicked instead of yielding.
MatchResolve(v, f, c) ==
    IF v.tag = "Some"
      THEN [val |-> v.val, invocations |-> 0, counter |-> c, panics |-> FALSE]
      ELSE LET r == CallFallback(f, c)
           IN  [val |-> r.ret, invocations |-> 1, counter |-> r.counter,
                panics |-> r.panics]

\* An Option resolver that evaluates its fallback first and then picks
\* (the unwrap_or(fallback()) shape).
UnwrapOrElseEager ==
    /\ prog = "unwrap_or_else" /\ pc = "start"
    /\ LET r == CallFallback(compute, counter)
       IN  /\ calls' = Append(calls, [arg |-> "()", ret |-> r.ret])
           /\ counter' = r.counter
           /\ IF r.panics
                THEN pc' = "panicked" /\ UNCHANGED resolved
                ELSE /\ pc' = "done"
                     /\ resolved' = Returned(IF cached.tag = "Some" THEN cached.val ELSE r.ret)
    /\ UNCHANGED <<prog, cached, compute, lazyOthers>>

\* Option::unwrap_or_else: Some(value) gives the value and the closure is
\* ignored; None calls the closure and gives what it returns.
UnwrapOrElse ==
    /\ prog = "unwrap_or_else" /\ pc = "start"
    /\ IF cached.tag = "Some"
         THEN ReturnPresent(cached.val)
         ELSE ReturnFallback("()")
    /\ UNCHANGED <<prog, cached, compute, lazyOthers>>

\* A Result resolver that calls the closure without handing it the error.
ResultUnwrapOrElseNoPayload ==
    /\ prog = "result_unwrap_or_else" /\ pc = "start"
    /\ IF cached.tag = "Ok"
         THEN ReturnPresent(cached.val)
         ELSE ReturnFallback("()")
    /\ UNCHANGED <<prog, cached, compute, lazyOthers>>

\* Result::unwrap_or_else: Ok(value) gives the value and the closure is
\* ignored; Err(e) passes e into the closure and gives what it returns.
ResultUnwrapOrElse ==
    /\ prog = "result_unwrap_or_else" /\ pc = "start"
    /\ IF cached.tag = "Ok"
         THEN ReturnPresent(cached.val)
         ELSE ReturnFallback(cached.err)
    /\ UNCHANGED <<prog, cached, compute, lazyOthers>>

\* ---------------------------------------------------------- Vault::unlock
Passwords == {"1234", "open sesame"}
VaultTreasures == {"secret document", "gold coins"}
Vault == [password : Passwords, treasure : VaultTreasures]

\* Lines the user may type, and str::trim on them.
StdinLines == {"1234\n", "  open sesame \n", "letmein\n"}

Trim(line) ==
    CASE line = "1234\n"            -> "1234"
      [] line = "  open sesame \n"  -> "open sesame"
      [] line = "letmein\n"         -> "letmein"
      [] OTHER                      -> line

\* The closures main passes to unlock:
\*   password_hack  reads a line from stdin and returns it trimmed
\*   auto_unlock    || String::from("1234")
\*   use_saved      move || saved_password
Procedures == {"password_hack", "auto_unlock", "use_saved"}

CallProcedure(p) ==
    CASE p = "password_hack" -> Trim(stdin_line)
      [] p = "auto_unlock"   -> "1234"
      [] p = "use_saved"     -> saved_password

InitUnlock ==
    /\ prog = "unlock"
    /\ pc = "start"
    /\ calls = <<>>
    /\ vault \in Vault
    /\ vault_owner = "main"
    /\ procedure \in Procedures
    /\ stdin_line \in (IF procedure = "password_hack" THEN StdinLines ELSE {""})
    /\ saved_password \in (IF procedure = "use_saved" THEN Passwords \cup {"letmein"} ELSE {""})
    /\ user_password = ""
    /\ result = Unset
    /\ TravIdle /\ ExplIdle /\ RetIdle /\ LazyIdle /\ OnceIdle /\ ScriptIdle /\ ThreadIdle /\ MapIdle /\ CheckoutIdle /\ ApplyIdle

\* An unlock that treats reusable callbacks differently: one that is not
\* Consuming is called a second time and the second answer is used.
UnlockCallProcedureRetriesReusable ==
    /\ prog = "unlock" /\ pc = "start"
    /\ vault_owner' = "unlock"
    /\ user_password' = CallProcedure(procedure)
    /\ calls' = IF Tier(procedure) = "Consuming"
                  THEN Append(calls, [arg |-> "()", ret |-> CallProcedure(procedure)])
                  ELSE calls \o << [arg |-> "()", ret |-> CallProcedure(procedure)],
                                  [arg |-> "()", ret |-> CallProcedure(procedure)] >>
    /\ pc' = "compare"
    /\ UNCHANGED <<prog, vault, procedure, stdin_line, saved_password, result,
                   vaultOthers>>

\* unlock(self, procedure): the vault moves into unlock;
\* Step 1: let user_password = procedure();
UnlockCallProcedure ==
    /\ prog = "unlock" /\ pc = "start"
    /\ vault_owner' = "unlock"
    /\ user_password' = CallProcedure(procedure)
    /\ calls' = Append(calls, [arg |-> "()", ret |-> CallProcedure(procedure)])
    /\ pc' = "compare"
    /\ UNCHANGED <<prog, vault, procedure, stdin_line, saved_password, result,
                   vaultOthers>>

\* user_password == self.password
PasswordMatchesAny(attempt, v) == attempt \in Passwords

PasswordMatches(attempt, v) == attempt = v.password

\* A comparison step that asks the procedure again for the value it compares.
UnlockCompareAsksAgain ==
    /\ prog = "unlock" /\ pc = "compare"
    /\ calls' = Append(calls, [arg |-> "()", ret |-> CallProcedure(procedure)])
    /\ result' = IF PasswordMatches(CallProcedure(procedure), vault)
                   THEN Some(vault.treasure)
                   ELSE None
    /\ vault_owner' = "nobody"
    /\ pc' = "done"
    /\ UNCHANGED <<prog, vault, procedure, stdin_line, saved_password,
                   user_password, vaultOthers>>

\* An unlock that only borrows the vault: on a mismatch the caller has it back.
UnlockCompareKeepsVault ==
    /\ prog = "unlock" /\ pc = "compare"
    /\ result' = IF PasswordMatches(user_password, vault)
                   THEN Some(vault.treasure)
                   ELSE None
    /\ vault_owner' = IF PasswordMatches(user_password, vault) THEN "nobody" ELSE "main"
    /\ pc' = "done"
    /\ UNCHANGED <<prog, calls, vault, procedure, stdin_line, saved_password,
                   user_password, vaultOthers>>

\* Step 2/3: if user_password == self.password { Some(self.treasure) } else { None }
\* and self is dropped when unlock returns.
UnlockCompare ==
    /\ prog = "unlock" /\ pc = "compare"
    /\ result' = IF PasswordMatches(user_password, vault)
                   THEN Some(vault.treasure)
                   ELSE None
    /\ vault_owner' = "nobody"
    /\ pc' = "done"
    /\ UNCHANGED <<prog, calls, vault, procedure, stdin_line, saved_password,
                   user_password, vaultOthers>>

\* ------------------------------------------------- single-use closures
\* Who invokes the closure: "direct" is the enclosing code calling it itself
\* (give_name(), user_name(), show_name()); the others are the functions
\* whose parameter is an FnOnce.
Callees == {"direct", "run_once", "call_once", "execute_once", "apply_once"}
CapturedStrings == {"nde simon", "Hello, Rust!"}

\* let name = String::from(..);
InitFnOnce ==
    /\ prog = "fn_once"
    /\ callee \in Callees
    /\ pc = "new"
    /\ calls = <<>>
    /\ binding \in CapturedStrings
    /\ closure = "Unbuilt"
    /\ captured = ""
    /\ body_runs = 0
    /\ returned = Unset
    /\ TravIdle /\ ExplIdle /\ RetIdle /\ LazyIdle /\ VaultIdle /\ ScriptIdle /\ ThreadIdle /\ MapIdle /\ CheckoutIdle /\ ApplyIdle

\* A closure built over a copy of the string, which leaves the local usable
\* (move || name.clone() over a borrowed name).
OnceConstructByClone ==
    /\ prog = "fn_once" /\ pc = "new"
    /\ closure' = "Unused"
    /\ captured' = binding
    /\ pc' = IF callee = "direct" THEN "call" ELSE "start"
    /\ UNCHANGED <<prog, calls, callee, binding, body_runs, returned, onceOthers>>

\* let give_name = move || name;  The string moves out of the local into the
\* closure, which is constructed owning it and not yet invoked.
OnceConstruct ==
    /\ prog = "fn_once" /\ pc = "new"
    /\ closure' = "Unused"
    /\ captured' = binding
    /\ binding' = "moved"
    /\ pc' = IF callee = "direct" THEN "call" ELSE "start"
    /\ UNCHANGED <<prog, calls, callee, body_runs, returned, onceOthers>>

\* run_once(move || greeting): the closure moves into the parameter f.
OnceEnter ==
    /\ prog = "fn_once" /\ pc = "start"
    /\ pc' = "call"
    /\ UNCHANGED <<prog, calls, onceVars, onceOthers>>

\* A function body that calls its closure a second time.
OnceInvokeTwice ==
    /\ prog = "fn_once" /\ pc = "call"
    /\ closure' = "Spent"
    /\ body_runs' = body_runs + 1
    /\ returned' = Returned(captured)
    /\ captured' = "moved"
    /\ calls' = Append(calls, [arg |-> "()", ret |-> captured])
    /\ pc' = IF body_runs = 0 THEN "call" ELSE "called"
    /\ UNCHANGED <<prog, callee, binding, onceOthers>>

\* f()  /  give_name(): the closure is consumed by the call; its body runs
\* and moves the captured string out as the result.
OnceInvoke ==
    /\ prog = "fn_once" /\ pc = "call"
    /\ closure' = "Spent"
    /\ body_runs' = body_runs + 1
    /\ returned' = Returned(captured)
    /\ captured' = "moved"
    /\ calls' = Append(calls, [arg |-> "()", ret |-> captured])
    /\ pc' = "called"
    /\ UNCHANGED <<prog, callee, binding, onceOthers>>

\* the function returns the value / the enclosing code goes on
OnceReturn ==
    /\ prog = "fn_once" /\ pc = "called"
    /\ pc' = "done"
    /\ UNCHANGED <<prog, calls, onceVars, onceOthers>>

\* ------------------------------------------------- straight-position mains
\* The bodies that build closures over a local and call them, statement by
\* statement.  Each statement carries its source line in src.
\*   op = "push"   : num.push(val) by the enclosing code
\*   op = "index"  : let index = num[val]
\*   op = "read"   : println! of the captured local by the enclosing code
\*   op = "define" : let f = |..| ...   (the closure captures the local by &mut)
\*   op = "call"   : f(arg), by the enclosing code or by the function f was passed to
Stmt(op, f, arg, val, src) == [op |-> op, f |-> f, arg |-> arg, val |-> val, src |-> src]

\* A main that prints num between two calls of the last closure.
Closure4MainPrintsBetweenCalls ==
    << Stmt("push", "-", "lit", 90, 58),
       Stmt("index", "-", "lit", 2, 61),
       Stmt("read", "-", "-", 0, 64),
       Stmt("define", "num_arr_78", "-", 0, 78),
       Stmt("call", "num_arr_78", "index", 0, 81),
       Stmt("read", "-", "-", 0, 86),
       Stmt("define", "num_arr_93", "-", 0, 93),
       Stmt("call", "num_arr_93", "index", 0, 96),
       Stmt("define", "num_arr_105", "-", 0, 105),
       Stmt("call", "num_arr_105", "unit", 0, 108),
       Stmt("read", "-", "-", 0, 120),
       Stmt("call", "num_arr_105", "unit", 0, 109),
       Stmt("call", "num_arr_105", "unit", 0, 110) >>

\* closure_4_mutations.rs main.  The three closures are all named num_arr
\* (each shadows the one before); they are told apart by their line.
Closure4Main ==
    << Stmt("push", "-", "lit", 90, 58),
       Stmt("index", "-", "lit", 2, 61),
       Stmt("read", "-", "-", 0, 64),
       Stmt("define", "num_arr_78", "-", 0, 78),
       Stmt("call", "num_arr_78", "index", 0, 81),
       Stmt("read", "-", "-", 0, 86),
       Stmt("define", "num_arr_93", "-", 0, 93),
       Stmt("call", "num_arr_93", "index", 0, 96),
       Stmt("define", "num_arr_105", "-", 0, 105),
       Stmt("call", "num_arr_105", "unit", 0, 108),
       Stmt("call", "num_arr_105", "unit", 0, 109),
       Stmt("call", "num_arr_105", "unit", 0, 110),
       Stmt("read", "-", "-", 0, 120) >>

\* A working_time whose body calls the closure twice.
Closure12MainTwoCalls ==
    << Stmt("define", "time", "-", 0, 39),
       Stmt("call", "time", "unit", 0, 16),
       Stmt("call", "time", "unit", 0, 17),
       Stmt("read", "-", "-", 0, 50) >>

\* closure_12.rs main: working_time(time) calls the closure three times.
Closure12Main ==
    << Stmt("define", "time", "-", 0, 39),
       Stmt("call", "time", "unit", 0, 16),
       Stmt("call", "time", "unit", 0, 17),
       Stmt("call", "time", "unit", 0, 18),
       Stmt("read", "-", "-", 0, 50) >>

\* closure_13_final.rs main: fruits(organic_fruits) calls the function three times.
Closure13Main ==
    << Stmt("call", "organic_fruits", "unit", 0, 17),
       Stmt("call", "organic_fruits", "unit", 0, 18),
       Stmt("call", "organic_fruits", "unit", 0, 19) >>

\* working_time(organic_fruits): the plain function handed to the FnMut() bound.
WorkingTimeOrganicFruits ==
    << Stmt("call", "organic_fruits", "unit", 0, 16),
       Stmt("call", "organic_fruits", "unit", 0, 17),
       Stmt("call", "organic_fruits", "unit", 0, 18) >>

\* closure_3_trait_hirachy.rs example_2_fnmut_trait; the last two calls are
\* made by apply_function_mut(&mut increment, 5).
Example2FnMutTrait ==
    << Stmt("define", "increment", "-", 0, 141),
       Stmt("call", "increment", "lit", 10, 148),
       Stmt("call", "increment", "lit", 20, 149),
       Stmt("call", "increment", "lit", 30, 150),
       Stmt("read", "-", "-", 0, 153),
       Stmt("call", "increment", "lit", 5, 165),
       Stmt("call", "increment", "lit", 6, 166) >>

\* closure_8 main, example 4: repeat_3_times(|| { count += 1; ... }).
RepeatThreeTimes ==
    << Stmt("define", "action", "-", 0, 215),
       Stmt("call", "action", "unit", 0, 209),
       Stmt("call", "action", "unit", 0, 210),
       Stmt("call", "action", "unit", 0, 211) >>

ScriptProgs == {"closure_4_main", "closure_12_main", "closure_13_main",
                "working_time_organic_fruits", "example_2_fnmut_trait", "repeat_3_times"}

Program(p) ==
    CASE p = "closure_4_main" -> Closure4Main
      [] p = "closure_12_main" -> Closure12Main
      [] p = "closure_13_main" -> Closure13Main
      [] p = "working_time_organic_fruits" -> WorkingTimeOrganicFruits
      [] p = "example_2_fnmut_trait" -> Example2FnMutTrait
      [] p = "repeat_3_times" -> RepeatThreeTimes

\* let mut num = vec![1, 2, 31, 45, 45, 40];  let mut our_vec = Vec::new();
InitialVec(p) == IF p = "closure_4_main" THEN <<1, 2, 31, 45, 45, 40>> ELSE <<>>

\* let hours = 12 (captured by copy)
hours == 12

\* Closure bodies where increment works on its own copy of counter (a move
\* closure over the Copy integer): the enclosing counter never changes.
ClosureBodyCopiedCounter(f, arg, v, c) ==
    CASE f \in {"num_arr_78", "num_arr_93"} ->
             [vec |-> Append(v, arg[1]), count |-> c, ret |-> <<>>]
      [] f = "num_arr_105" -> [vec |-> Append(v, 80), count |-> c, ret |-> <<>>]
      [] f = "time" -> [vec |-> Append(v, 12), count |-> c, ret |-> <<>>]
      [] f = "increment" -> [vec |-> v, count |-> c, ret |-> <<arg[1] + c + 1>>]
      [] f = "action" -> [vec |-> v, count |-> c + 1, ret |-> <<>>]
      [] f = "organic_fruits" -> [vec |-> v, count |-> c, ret |-> <<>>]

\* What one call of the closure does to the captured Vec and integer, and
\* what it returns (<<>> is the unit value).
ClosureBody(f, arg, v, c) ==
    CASE f \in {"num_arr_78", "num_arr_93"} ->
             [vec |-> Append(v, arg[1]), count |-> c, ret |-> <<>>]
      [] f = "num_arr_105" -> [vec |-> Append(v, 80), count |-> c, ret |-> <<>>]
      [] f = "time" -> [vec |-> Append(v, hours), count |-> c, ret |-> <<>>]
      [] f = "increment" -> [vec |-> v, count |-> c + 1, ret |-> <<arg[1] + c + 1>>]
      [] f = "action" -> [vec |-> v, count |-> c + 1, ret |-> <<>>]
      [] f = "organic_fruits" -> [vec |-> v, count |-> c, ret |-> <<>>]

\* The statement at position i is followed by a call of f: the closure, and
\* with it its mutable borrow of the local, is still in use after i.
CalledAfter(body, i, f) ==
    \E k \in (i + 1)..Len(body) : body[k].op = "call" /\ body[k].f = f

InitScript ==
    /\ prog \in ScriptProgs
    /\ pc = "run"
    /\ calls = <<>>
    /\ position = 1
    /\ index = 0
    /\ captured_vec = InitialVec(prog)
    /\ captured_count = 0
    /\ live = {}
    /\ aliased = {}
    /\ TravIdle /\ ExplIdle /\ RetIdle /\ LazyIdle /\ VaultIdle /\ OnceIdle /\ ThreadIdle /\ MapIdle /\ CheckoutIdle /\ ApplyIdle

AtStmt(op) ==
    /\ prog \in ScriptProgs /\ pc = "run"
    /\ position <= Len(Program(prog))
    /\ Program(prog)[position].op = op

\* A direct access to the captured local by the enclosing code; it overlaps
\* a mutable borrow exactly when some capturing closure is still live.
DirectAccess(stmt) == IF live = {} THEN aliased ELSE aliased \cup {stmt.src}

\* num.push(90)
ScriptPush ==
    /\ AtStmt("push")
    /\ LET stmt == Program(prog)[position] IN
         /\ captured_vec' = Append(captured_vec, stmt.val)
         /\ aliased' = DirectAccess(stmt)
    /\ position' = position + 1
    /\ UNCHANGED <<prog, pc, calls, index, captured_count, live, scriptOthers>>

\* An indexing that counts positions from one: num[2] is the second element.
ScriptIndexOneBased ==
    /\ AtStmt("index")
    /\ LET stmt == Program(prog)[position] IN
         /\ aliased' = DirectAccess(stmt)
         /\ IF 1 <= stmt.val /\ stmt.val <= Len(captured_vec)
              THEN index' = captured_vec[stmt.val] /\ position' = position + 1 /\ pc' = pc
              ELSE UNCHANGED <<index, position>> /\ pc' = "panicked"
    /\ UNCHANGED <<prog, calls, captured_vec, captured_count, live, scriptOthers>>

\* let index = num[2]   (0-based, bounds-checked)
ScriptIndex ==
    /\ AtStmt("index")
    /\ LET stmt == Program(prog)[position] IN
         /\ aliased' = DirectAccess(stmt)
         /\ IF stmt.val < Len(captured_vec)
              THEN index' = captured_vec[stmt.val + 1] /\ position' = position + 1 /\ pc' = pc
              ELSE UNCHANGED <<index, position>> /\ pc' = "panicked"
    /\ UNCHANGED <<prog, calls, captured_vec, captured_count, live, scriptOthers>>

\* println!("{:?}", num)  /  println!("Final counter value: {}", counter)
ScriptRead ==
    /\ AtStmt("read")
    /\ aliased' = DirectAccess(Program(prog)[position])
    /\ position' = position + 1
    /\ UNCHANGED <<prog, pc, calls, index, captured_vec, captured_count, live,
                   scriptOthers>>

\* let f = |..| ... : the closure takes its mutable borrow of the local.
ScriptDefine ==
    /\ AtStmt("define")
    /\ LET stmt == Program(prog)[position] IN
         live' = IF CalledAfter(Program(prog), position, stmt.f)
                   THEN live \cup {stmt.f} ELSE live
    /\ position' = position + 1
    /\ UNCHANGED <<prog, pc, calls, index, captured_vec, captured_count, aliased,
                   scriptOthers>>

\* f(arg): the body runs once; after its last call the closure is dead and
\* its borrow ends.
ScriptCall ==
    /\ AtStmt("call")
    /\ LET stmt == Program(prog)[position]
           arg == CASE stmt.arg = "index" -> <<index>>
                    [] stmt.arg = "lit" -> <<stmt.val>>
                    [] stmt.arg = "unit" -> <<>>
           out == ClosureBody(stmt.f, arg, captured_vec, captured_count)
       IN
         /\ captured_vec' = out.vec
         /\ captured_count' = out.count
         /\ calls' = Append(calls, [f |-> stmt.f, arg |-> arg, ret |-> out.ret])
         /\ live' = IF CalledAfter(Program(prog), position, stmt.f)
                      THEN live ELSE live \ {stmt.f}
    /\ position' = position + 1
    /\ UNCHANGED <<prog, pc, index, aliased, scriptOthers>>

\* the end of the body
ScriptReturn ==
    /\ prog \in ScriptProgs /\ pc = "run"
    /\ position = Len(Program(prog)) + 1
    /\ pc' = "done"
    /\ UNCHANGED <<prog, calls, scriptVars, scriptOthers>>

\* -------------------------------------------------- example_2_threading
\* let data = vec![1, 2, 3, 4, 5];
InitThreading ==
    /\ prog = "example_2_threading"
    /\ pc = "start"
    /\ calls = <<>>
    /\ data = <<1, 2, 3, 4, 5>>
    /\ data_owner = "main"
    /\ thread_pc = "unborn"
    /\ thread_runs = 0
    /\ TravIdle /\ ExplIdle /\ RetIdle /\ LazyIdle /\ VaultIdle /\ OnceIdle /\ ScriptIdle /\ MapIdle /\ CheckoutIdle /\ ApplyIdle

\* let handle = std::thread::spawn(move || { ... }): data moves into the
\* closure and the closure into the new thread.
ThreadSpawn ==
    /\ prog = "example_2_threading" /\ pc = "start"
    /\ data_owner' = "thread"
    /\ thread_pc' = "ready"
    /\ pc' = "spawned"
    /\ UNCHANGED <<prog, calls, data, thread_runs, threadOthers>>

\* the spawned thread calls the closure: println!("Thread got: {:?}", data)
ThreadRunClosure ==
    /\ prog = "example_2_threading" /\ thread_pc = "ready"
    /\ thread_runs' = thread_runs + 1
    /\ calls' = Append(calls, [by |-> "thread", arg |-> <<>>, ret |-> <<>>, saw |-> data])
    /\ thread_pc' = "ran"
    /\ UNCHANGED <<prog, pc, data, data_owner, threadOthers>>

\* the closure returns, data is dropped and the thread ends
ThreadExit ==
    /\ prog = "example_2_threading" /\ thread_pc = "ran"
    /\ data_owner' = "nobody"
    /\ thread_pc' = "exited"
    /\ UNCHANGED <<prog, pc, calls, data, thread_runs, threadOthers>>

\* main calls handle.join() and blocks
MainJoinCall ==
    /\ prog = "example_2_threading" /\ pc = "spawned"
    /\ pc' = "joining"
    /\ UNCHANGED <<prog, calls, threadVars, threadOthers>>

\* A join that returns without waiting for the thread (a detached thread).
MainJoinReturnDetached ==
    /\ prog = "example_2_threading" /\ pc = "joining"
    /\ pc' = "done"
    /\ UNCHANGED <<prog, calls, threadVars, threadOthers>>

\* join returns once the thread has ended; unwrap() of Ok(()) and return
MainJoinReturn ==
    /\ prog = "example_2_threading" /\ pc = "joining"
    /\ thread_pc = "exited"
    /\ pc' = "done"
    /\ UNCHANGED <<prog, calls, threadVars, threadOthers>>

\* --------------------------------- unwrap_or_else over a Vec of options
\* closure_7 example 6: each element is resolved with the counting fallback
\* || { counter += 1; counter * 100 }.
OptionValues == {None, Some(10), Some(30)}

InitMapUnwrapOrElse ==
    /\ prog = "map_unwrap_or_else"
    /\ pc = "iterate"
    /\ calls = <<>>
    /\ values \in SeqUpTo(OptionValues, MaxValues)
    /\ taken = 0
    /\ results = <<>>
    /\ cached = None
    /\ compute = "counting"
    /\ counter = 0
    /\ resolved = Unset
    /\ TravIdle /\ ExplIdle /\ RetIdle /\ VaultIdle /\ OnceIdle /\ ScriptIdle /\ ThreadIdle /\ CheckoutIdle /\ ApplyIdle

\* A map closure that evaluates the fallback for every element and then
\* picks (the unwrap_or(fallback()) shape).
MapUnwrapOrElseStepEager ==
    /\ prog = "map_unwrap_or_else" /\ pc = "iterate"
    /\ taken < Len(values)
    /\ LET opt == values[taken + 1]
           r == CallFallback(compute, counter)
       IN  /\ calls' = Append(calls, [arg |-> "()", ret |-> r.ret])
           /\ counter' = r.counter
           /\ results' = Append(results, IF opt.tag = "Some" THEN opt.val ELSE r.ret)
    /\ taken' = taken + 1
    /\ UNCHANGED <<prog, pc, cached, compute, resolved, values, travVars, explVars,
                   retVars, vaultVars, onceVars, scriptVars, threadVars, checkoutVars,
                   applyVars>>

\* .map(|opt| opt.unwrap_or_else(|| { counter += 1; counter * 100 })) for the
\* next element of the iterator
MapUnwrapOrElseStep ==
    /\ prog = "map_unwrap_or_else" /\ pc = "iterate"
    /\ taken < Len(values)
    /\ LET opt == values[taken + 1]
           r == CallFallback(compute, counter)
       IN  IF opt.tag = "Some"
             THEN /\ results' = Append(results, opt.val)
                  /\ UNCHANGED <<calls, counter>>
             ELSE /\ calls' = Append(calls, [arg |-> "()", ret |-> r.ret])
                  /\ counter' = r.counter
                  /\ results' = Append(results, r.ret)
    /\ taken' = taken + 1
    /\ UNCHANGED <<prog, pc, cached, compute, resolved, values, travVars, explVars,
                   retVars, vaultVars, onceVars, scriptVars, threadVars, checkoutVars,
                   applyVars>>

\* .collect(): the iterator is exhausted
MapCollect ==
    /\ prog = "map_unwrap_or_else" /\ pc = "iterate"
    /\ taken = Len(values)
    /\ pc' = "done"
    /\ UNCHANGED <<prog, calls, lazyVars, lazyOthers>>

\* ------------------------------------------------ ShoppingCart::checkout
\* main: let mut total_price = 0.0; items.checkout(|mut cart| { ... });
\* Everything but the cart, the traversal inside the operation and the two logs.
checkoutFrame == <<explVars, retVars, lazyVars, vaultVars, onceVars, scriptVars,
                   threadVars, mapVars, applyVars>>

InitCheckout ==
    /\ prog = "checkout"
    /\ pc = "start"
    /\ calls = <<>>
    /\ item \in SeqUpTo(SupermarketItem, MaxLen)
    /\ start_index = 0
    /\ operation = "sum"
    /\ total_price = 0
    /\ cart_owner = "main"
    /\ checkout_calls = <<>>
    /\ ExplIdle /\ RetIdle /\ LazyIdle /\ VaultIdle /\ OnceIdle /\ ScriptIdle /\ ThreadIdle /\ MapIdle /\ ApplyIdle

\* A checkout that hands the operation the cart without its first item.
CheckoutCallPassesRest ==
    /\ prog = "checkout" /\ pc = "start"
    /\ item' = IF item = <<>> THEN item ELSE Tail(item)
    /\ cart_owner' = "operation"
    /\ checkout_calls' = Append(checkout_calls, item')
    /\ pc' = "operation"
    /\ UNCHANGED <<prog, calls, start_index, operation, total_price, checkoutFrame>>

\* operation(self): the cart moves out of main into checkout and on into the
\* operation's parameter cart; the closure prints it.
CheckoutCall ==
    /\ prog = "checkout" /\ pc = "start"
    /\ cart_owner' = "operation"
    /\ checkout_calls' = Append(checkout_calls, item)
    /\ pc' = "operation"
    /\ UNCHANGED <<prog, calls, travVars, checkoutFrame>>

\* cart.traverse_items(|items| total_price += items.price): let mut start_index = 0;
CheckoutTraverseEnter ==
    /\ prog = "checkout" /\ pc = "operation"
    /\ start_index' = 0
    /\ pc' = "loop"
    /\ UNCHANGED <<prog, calls, item, operation, total_price, checkoutVars, checkoutFrame>>

\* one turn of traverse_items' loop inside the operation
CheckoutTraverseStep ==
    /\ prog = "checkout" /\ pc = "loop"
    /\ TraverseCond(start_index, Len(item))
    /\ LET r == ApplyOperation(operation, item[start_index + 1], total_price)
       IN  /\ item' = [item EXCEPT ![start_index + 1] = r.it]
           /\ total_price' = r.total
           /\ calls' = Append(calls, start_index)
           /\ start_index' = TraverseNextIndex(start_index)
    /\ UNCHANGED <<prog, pc, operation, checkoutVars, checkoutFrame>>

\* traverse_items returns; the closure prints total_price and returns, the
\* cart it owned is dropped, and checkout returns.
CheckoutReturn ==
    /\ prog = "checkout" /\ pc = "loop"
    /\ ~TraverseCond(start_index, Len(item))
    /\ cart_owner' = "nobody"
    /\ pc' = "done"
    /\ UNCHANGED <<prog, calls, travVars, checkout_calls, checkoutFrame>>

\* ------------------------------------------- apply_many / apply_mut_times
\* The closures example_7_trait_bounds passes:
\*   apply_many       |x| x * multiplier        (multiplier = 3)
\*   apply_mut_times  |x| { total += x; ... }
Appliers == {"apply_many", "apply_mut_times"}

\* let multiplier = 3;
multiplier == 3

InitApply ==
    /\ prog = "apply"
    /\ pc = "loop"
    /\ calls = <<>>
    /\ applier \in Appliers
    /\ count \in -1..MaxCount
    /\ range_next = 0
    /\ apply_total = 0
    /\ TravIdle /\ ExplIdle /\ RetIdle /\ LazyIdle /\ VaultIdle /\ OnceIdle /\ ScriptIdle /\ ThreadIdle /\ MapIdle /\ CheckoutIdle

\* A range that includes its end (0..=count).
RangeHasNextInclusive(next, end) == next <= end

\* 0..count as an iterator: it yields its next value while that is below the end.
RangeHasNext(next, end) == next < end

\* for i in 0..count { f(i) }: one turn of the loop
ApplyStep ==
    /\ prog = "apply" /\ pc = "loop"
    /\ RangeHasNext(range_next, count)
    /\ IF applier = "apply_many"
         THEN /\ calls' = Append(calls, [arg |-> <<range_next>>,
                                          ret |-> <<range_next * multiplier>>])
              /\ UNCHANGED apply_total
         ELSE /\ calls' = Append(calls, [arg |-> <<range_next>>, ret |-> <<>>])
              /\ apply_total' = apply_total + range_next
    /\ range_next' = range_next + 1
    /\ UNCHANGED <<prog, pc, applier, count, applyOthers>>

\* the range is exhausted: the function returns
ApplyReturn ==
    /\ prog = "apply" /\ pc = "loop"
    /\ ~RangeHasNext(range_next, count)
    /\ pc' = "done"
    /\ UNCHANGED <<prog, calls, applyVars, applyOthers>>

\* ------------------------------------------------------------ specification
Init ==
    \/ InitTraverse
    \/ InitExplore
    \/ InitRetain
    \/ InitGetOrCompute
    \/ InitUnwrapOrElse
    \/ InitResultUnwrapOrElse
    \/ InitUnlock
    \/ InitFnOnce
    \/ InitScript
    \/ InitThreading
    \/ InitMapUnwrapOrElse
    \/ InitCheckout
    \/ InitApply

Next ==
    \/ TraverseEnter
    \/ TraverseStep
    \/ TraverseReturn
    \/ ExploreEnter
    \/ ExploreStep
    \/ ExploreReturn
    \/ RetainEnter
    \/ RetainStep
    \/ RetainFinish
    \/ GetOrCompute
    \/ UnwrapOrElse
    \/ ResultUnwrapOrElse
    \/ UnlockCallProcedure
    \/ UnlockCompare
    \/ OnceConstruct
    \/ OnceEnter
    \/ OnceInvoke
    \/ OnceReturn
    \/ ScriptPush
    \/ ScriptIndex
    \/ ScriptRead
    \/ ScriptDefine
    \/ ScriptCall
    \/ ScriptReturn
    \/ ThreadSpawn
    \/ ThreadRunClosure
    \/ ThreadExit
    \/ MainJoinCall
    \/ MainJoinReturn
    \/ MapUnwrapOrElseStep
    \/ MapCollect
    \/ CheckoutCall
    \/ CheckoutTraverseEnter
    \/ CheckoutTraverseStep
    \/ CheckoutReturn
    \/ ApplyStep
    \/ ApplyReturn

Spec == Init /\ [][Next]_vars

Ended == pc \in {"done", "panicked"}

\* The index sequence 0, 1, ..., n-1.
Ascending(n) == [k \in 1..n |-> k - 1]

\* ------------------------------------------------------------------ claims
\* C1: a traversal (traverse_items, explore) invokes its callback once per
\* element in strictly ascending index order: at every moment the invocations
\* made so far are those of indices 0, 1, ..., k-1 with no index skipped or
\* repeated, and when the traversal has ended there were exactly len(S) of
\* them; a name-collecting callback ends with the names in index order.
C1_TraversalInvokesEachInOrder ==
    prog \in {"traverse_items", "explore"} =>
        LET S == IF prog = "explore" THEN location ELSE item
        IN  /\ calls = Ascending(Len(calls))
            /\ Len(calls) <= Len(S)
            /\ Ended => calls = Ascending(Len(S))
            /\ (Ended /\ action = "collect_names") =>
                   city_names = [k \in 1..Len(location) |-> location[k].name]

C1_Witness ==
    /\ prog = "explore" /\ pc = "done" /\ action = "collect_names"
    /\ Len(location) >= 2
    /\ calls = Ascending(Len(location))
    /\ city_names = <<"Abu Dhabi", "Al ain">>

\* The elements of the logged calls whose answer was b, in call order.
RECURSIVE Answered(_, _)
Answered(log, b) ==
    IF log = <<>> THEN <<>>
    ELSE LET rest == Answered(SubSeq(log, 1, Len(log) - 1), b)
             last == log[Len(log)]
         IN  IF last.ret = b THEN Append(rest, last.arg) ELSE rest

\* C2: when retain has finished, the collection is exactly the sub-sequence
\* of the original elements for which the predicate answered true, in their
\* original order, the predicate was asked about the original elements, and
\* len(output) + (number of false answers) = len(original); a rejection
\* counter captured by the predicate equals len(original) - len(output).
C2_RetainKeepsAcceptedInOrder ==
    (prog = "retain" /\ pc = "done") =>
        /\ [k \in 1..Len(calls) |-> calls[k].arg] = original
        /\ vec = Answered(calls, TRUE)
        /\ Len(vec) + Len(Answered(calls, FALSE)) = Len(original)
        /\ predicate = "passing" => removed_count = Len(original) - Len(vec)
        /\ predicate = "is_odd" =>
               vec = SelectSeq(original, LAMBDA n : n % 2 # 0)

C2_Witness ==
    /\ prog = "retain" /\ pc = "done" /\ predicate = "passing"
    /\ original = <<95, 42, 1>>
    /\ vec = <<95>>
    /\ removed_count = 2

\* C3: resolving Some(x) (get_or_compute, Option::unwrap_or_else) returns x
\* and never invokes the fallback, whatever the fallback is: no call is
\* logged, its captured counter is untouched and a fallback that would
\* panic does not.
C3_PresentNeverInvokesFallback ==
    (prog \in {"get_or_compute", "unwrap_or_else"} /\ cached.tag = "Some") =>
        /\ calls = <<>>
        /\ counter = 0
        /\ pc \in {"start", "done"}
        /\ pc = "start" => ENABLED (GetOrCompute \/ UnwrapOrElse)
        /\ pc = "done" => resolved = Returned(cached.val)

C3_Witness ==
    /\ prog = "get_or_compute" /\ pc = "done"
    /\ cached = Some(42) /\ compute = "panicking"
    /\ resolved = Returned(42) /\ calls = <<>>

\* C4: resolving None invokes the fallback exactly once and returns exactly
\* the value that invocation produced.
C4_AbsentInvokesFallbackOnce ==
    (prog \in {"get_or_compute", "unwrap_or_else"} /\ cached.tag = "None") =>
        /\ pc = "start" => calls = <<>> /\ ENABLED (GetOrCompute \/ UnwrapOrElse)
        /\ Ended => Len(calls) = 1
        /\ pc = "done" => resolved = Returned(calls[1].ret)
        /\ (pc = "done" /\ compute = "constant") => resolved = Returned(999)
        /\ (pc = "done" /\ compute = "counting") => resolved = Returned(100) /\ counter = 1
        /\ pc = "panicked" => compute = "panicking"

C4_Witness ==
    /\ prog = "get_or_compute" /\ pc = "done"
    /\ cached = None /\ compute = "constant"
    /\ Len(calls) = 1 /\ resolved = Returned(999)

\* C5: unlock returns Some(treasure) if and only if the value the procedure
\* returned equals the vault's password; for any other value it returns None,
\* and no result is yielded before the comparison.
C5_UnlockYieldsTreasureIffMatch ==
    prog = "unlock" =>
        /\ pc # "done" => result = Unset
        /\ pc = "done" =>
              /\ user_password = calls[1].ret
              /\ (result = Some(vault.treasure)) <=> (calls[1].ret = vault.password)
              /\ (calls[1].ret # vault.password) => result = None

C5_Witness ==
    /\ prog = "unlock" /\ pc = "done" /\ procedure = "use_saved"
    /\ vault = [password |-> "open sesame", treasure |-> "gold coins"]
    /\ saved_password = "open sesame"
    /\ result = Some("gold coins")

\* C6: every unlock invokes the procedure exactly once, before the
\* comparison, whether or not the password matches.
C6_ProcedureInvokedOnceBeforeCompare ==
    prog = "unlock" =>
        /\ pc = "start" => calls = <<>>
        /\ pc \in {"compare", "done"} => Len(calls) = 1
        /\ result # Unset => Len(calls) = 1

C6_Witness ==
    /\ prog = "unlock" /\ pc = "done" /\ Len(calls) = 1
    /\ result = None /\ user_password # vault.password

\* C10: resolving a Result: Ok(v) returns v without invoking the fallback;
\* Err(e) invokes the fallback exactly once, with exactly e, and returns what
\* it produced (-1 for the closure of the example).
C10_ResultFallbackReceivesError ==
    prog = "result_unwrap_or_else" =>
        /\ pc = "start" => calls = <<>>
        /\ cached.tag = "Ok" =>
              /\ calls = <<>>
              /\ pc # "panicked"
              /\ pc = "done" => resolved = Returned(cached.val)
        /\ cached.tag = "Err" =>
              /\ Ended => Len(calls) = 1 /\ calls[1].arg = cached.err
              /\ pc = "done" => resolved = Returned(calls[1].ret)
              /\ (pc = "done" /\ compute = "minus_one") => resolved = Returned(-1)

C10_Witness ==
    /\ prog = "result_unwrap_or_else" /\ pc = "done"
    /\ cached = Err("connection failed") /\ compute = "minus_one"
    /\ calls = <<[arg |-> "connection failed", ret |-> -1]>>
    /\ resolved = Returned(-1)

\* C7: a consuming closure is Unused until its single invocation and Spent
\* from then on: its body has run at most once in every reachable state, it
\* is Spent exactly when the body has run once, the captured value is handed
\* out by that run only, and once Spent it stays Spent and its body never
\* runs again.
C7_ConsumingClosureRunsAtMostOnce ==
    /\ [](prog = "fn_once" =>
            /\ closure \in {"Unbuilt", "Unused", "Spent"}
            /\ closure = "Unbuilt" <=> pc = "new"
            /\ closure = "Unbuilt" => returned = Unset
            /\ body_runs <= 1
            /\ closure = "Spent" <=> body_runs = 1
            /\ closure = "Spent" <=> returned # Unset
            /\ Len(calls) = body_runs
            /\ pc \in {"start", "call"} => closure = "Unused"
            /\ pc = "done" => closure = "Spent")
    /\ [][(prog = "fn_once" /\ closure = "Spent") =>
             (closure' = "Spent" /\ body_runs' = body_runs /\ returned' = returned)]_vars

C7_Witness ==
    /\ prog = "fn_once" /\ pc = "done" /\ callee = "run_once"
    /\ closure = "Spent" /\ body_runs = 1
    /\ returned = Returned("Hello, Rust!")

\* The elements of seq at the positions where the logged answer was b.
RECURSIVE PickByAnswer(_, _, _)
PickByAnswer(seq, log, b) ==
    IF seq = <<>> \/ log = <<>> THEN <<>>
    ELSE LET n == Len(seq)
             rest == PickByAnswer(SubSeq(seq, 1, n - 1), SubSeq(log, 1, n - 1), b)
         IN  IF log[n].ret = b THEN Append(rest, seq[n]) ELSE rest

\* C11: with the diverting closure (push the rejected element to the captured
\* sink, then answer false) the sink holds, at every moment, exactly the
\* elements rejected so far in traversal order; when retain has finished every
\* position of the original is either in the kept collection or in the sink,
\* never both and never neither, both in original order.
C11_DivertedSinkHoldsRejected ==
    (prog = "retain" /\ predicate = "holding_char") =>
        /\ deleted_characters = Answered(calls, FALSE)
        /\ \A k \in 1..Len(deleted_characters) : deleted_characters[k] = "a"
        /\ pc = "done" =>
              /\ Len(calls) = Len(original)
              /\ vec = PickByAnswer(original, calls, TRUE)
              /\ deleted_characters = PickByAnswer(original, calls, FALSE)
              /\ Len(vec) + Len(deleted_characters) = Len(original)
              /\ \A k \in 1..Len(vec) : vec[k] # "a"

C11_Witness ==
    /\ prog = "retain" /\ pc = "done" /\ predicate = "holding_char"
    /\ original = <<"a", "P", "a">>
    /\ vec = <<"P">>
    /\ deleted_characters = <<"a", "a">>

\* C12: retain evaluates the predicate once per original element in ascending
\* index order, also for the elements that follow removed ones: the k-th
\* evaluation is of the element originally at index k, the elements not yet
\* examined are untouched, and the kept part is decided by the answers alone.
C12_RetainEvaluatesEachOnceInOrder ==
    (prog = "retain" /\ pc \in {"loop", "done"}) =>
        /\ original_len = Len(original)
        /\ processed_len <= original_len
        /\ Len(calls) = processed_len
        /\ \A k \in 1..Len(calls) : calls[k].arg = original[k]
        /\ deleted_cnt = Len(Answered(calls, FALSE))
        /\ SubSeq(vec, 1, processed_len - deleted_cnt) = Answered(calls, TRUE)
        /\ pc = "loop" => \A k \in (processed_len + 1)..original_len : vec[k] = original[k]
        /\ pc = "done" => Len(calls) = Len(original) /\ vec = Answered(calls, TRUE)

C12_Witness ==
    /\ prog = "retain" /\ pc = "done" /\ predicate = "is_odd"
    /\ original = <<2, 1, 95>>
    /\ calls = <<[arg |-> 2, ret |-> FALSE], [arg |-> 1, ret |-> TRUE],
                 [arg |-> 95, ret |-> TRUE]>>
    /\ vec = <<1, 95>>

\* C13: unlock consumes the vault on every outcome: main owns it only before
\* the call, once it has moved into unlock it never comes back, after unlock
\* has returned (match or mismatch) nobody owns it and no further step of
\* unlock is possible on it, so at most one attempt is ever made and a
\* mismatch leaves the treasure with nobody.
C13_UnlockConsumesVault ==
    /\ [](prog = "unlock" =>
            /\ vault_owner = "main" <=> pc = "start"
            /\ vault_owner = "unlock" <=> pc = "compare"
            /\ vault_owner = "nobody" <=> pc = "done"
            /\ Len(calls) <= 1
            /\ pc = "done" => ~ENABLED (UnlockCallProcedure \/ UnlockCompare)
            /\ (pc = "done" /\ user_password # vault.password) =>
                   result = None /\ vault_owner = "nobody")
    /\ [][(prog = "unlock" /\ vault_owner # "main") => vault_owner' # "main"]_vars

C13_Witness ==
    /\ prog = "unlock" /\ pc = "done"
    /\ user_password # vault.password
    /\ result = None /\ vault_owner = "nobody" /\ Len(calls) = 1

\* C14: in example_2_fnmut_trait the enclosing code never reads counter
\* directly while the closure increment, which captured it mutably, is still
\* live (called again afterwards through apply_function_mut).
C14_CounterNeverReadWhileLive ==
    prog = "example_2_fnmut_trait" =>
        /\ aliased = {}
        /\ (pc = "run" /\ position <= Len(Example2FnMutTrait)
               /\ Example2FnMutTrait[position].op = "read") => live = {}

\* C15: in closure_4_mutations main and closure_12 main at most one closure
\* capturing the vector is live at any point, and the enclosing code touches
\* the vector directly (push, index, print) only where no capturing closure
\* will be called again; each closure is dead after its last call.
C15_OneLiveClosureAndReadsWhenNoneLive ==
    prog \in {"closure_4_main", "closure_12_main"} =>
        /\ Cardinality(live) <= 1
        /\ aliased = {}
        /\ \A f \in live : pc = "run" /\ CalledAfter(Program(prog), position - 1, f)
        /\ (pc = "run" /\ position <= Len(Program(prog))
               /\ Program(prog)[position].op \in {"read", "push", "index"}) => live = {}
        /\ pc = "done" =>
              /\ live = {}
              /\ prog = "closure_4_main" =>
                    captured_vec = <<1, 2, 31, 45, 45, 40, 90, 31, 31, 80, 80, 80>>
              /\ prog = "closure_12_main" => captured_vec = <<12, 12, 12>>

C15_Witness ==
    /\ prog = "closure_4_main" /\ pc = "run"
    /\ position = 12 /\ live = {"num_arr_105"}
    /\ Len(calls) = 4 /\ calls[4].f = "num_arr_105"
    /\ captured_vec = <<1, 2, 31, 45, 45, 40, 90, 31, 31, 80, 80>>

C18_ThreadClosureOnceAndJoined ==
    /\ [](prog = "example_2_threading" =>
            /\ thread_runs <= 1
            /\ Len(calls) = thread_runs
            /\ \A k \in 1..Len(calls) : calls[k].by = "thread" /\ calls[k].saw = <<1, 2, 3, 4, 5>>
            /\ thread_runs = 1 <=> thread_pc \in {"ran", "exited"}
            /\ data_owner = "main" <=> pc = "start"
            /\ thread_pc = "unborn" <=> pc = "start"
            /\ pc = "done" =>
                  /\ thread_pc = "exited"
                  /\ thread_runs = 1
                  /\ data_owner = "nobody"
                  /\ ~ENABLED ThreadRunClosure)
    /\ [][(prog = "example_2_threading" /\ data_owner # "main") => data_owner' # "main"]_vars

C18_Witness ==
    /\ prog = "example_2_threading" /\ pc = "done"
    /\ thread_pc = "exited" /\ thread_runs = 1
    /\ Len(calls) = 1 /\ data_owner = "nobody"

\* The number of None entries among the first k elements.
NoneCount(seq, k) == Cardinality({j \in 1..k : seq[j] = None})

\* C19: resolving options one by one with the counting fallback runs the
\* fallback once per None and never for a Some: after each element the
\* counter is the number of None entries taken so far, a Some passes through
\* unchanged and the k-th None resolves to k * 100; in particular
\* [Some(10), None, Some(30), None, None] gives [10, 100, 30, 200, 300] with
\* the counter at 3.
C19_CounterFallbackOncePerNone ==
    prog = "map_unwrap_or_else" =>
        /\ taken <= Len(values) /\ Len(results) = taken
        /\ counter = NoneCount(values, taken)
        /\ Len(calls) = counter
        /\ \A k \in 1..Len(calls) : calls[k].ret = k * 100
        /\ \A k \in 1..taken :
              results[k] = IF values[k].tag = "Some" THEN values[k].val
                                                     ELSE NoneCount(values, k) * 100
        /\ pc = "done" =>
              /\ taken = Len(values)
              /\ counter = NoneCount(values, Len(values))
              /\ values = <<Some(10), None, Some(30), None, None>> =>
                    results = <<10, 100, 30, 200, 300>> /\ counter = 3

C19_Witness ==
    /\ prog = "map_unwrap_or_else" /\ pc = "done"
    /\ values = <<Some(10), None, Some(30), None, None>>
    /\ results = <<10, 100, 30, 200, 300>>
    /\ counter = 3 /\ Len(calls) = 3

\* C20: once a consuming closure that moves a captured value has been
\* constructed, the local it was moved from is unusable from then on; the
\* value is in exactly one place at a time (the local, the closure, the
\* result) and leaves the closure only by the closure's single invocation,
\* which hands out exactly the captured value.  use_saved hands its
\* saved_password to unlock the same way.
C20_MovedCaptureOnlyViaInvocation ==
    /\ [](prog = "fn_once" =>
            /\ binding \in CapturedStrings <=> pc = "new"
            /\ closure # "Unbuilt" => binding = "moved"
            /\ captured \in CapturedStrings <=> closure = "Unused"
            /\ returned # Unset <=> closure = "Spent"
            /\ closure = "Spent" =>
                  /\ captured = "moved"
                  /\ body_runs = 1 /\ Len(calls) = 1
                  /\ returned = Returned(calls[1].ret)
                  /\ returned.val \in CapturedStrings)
    /\ [](prog = "unlock" /\ procedure = "use_saved" =>
            /\ pc = "start" => user_password = "" /\ calls = <<>>
            /\ pc # "start" =>
                  /\ Len(calls) = 1 /\ calls[1].ret = saved_password
                  /\ user_password = saved_password)
    /\ [][prog = "fn_once" =>
            /\ binding' \in {binding, "moved"}
            /\ binding' # binding => captured' = binding
            /\ captured' \in CapturedStrings => captured' \in {binding, captured}
            /\ returned' # returned =>
                  /\ closure = "Unused" /\ closure' = "Spent"
                  /\ returned' = Returned(captured)]_vars

C20_Witness ==
    /\ prog = "fn_once" /\ callee = "direct" /\ pc = "done"
    /\ binding = "moved" /\ captured = "moved" /\ closure = "Spent"
    /\ returned = Returned("nde simon") /\ Len(calls) = 1

\* C21: traversal never changes the structure of the sequence.  Every step
\* of traverse_items keeps the length, and the k-th invocation changes at
\* most the element at index k, to what the callback made of it; every other
\* element stays as it was, so at the end each element has been through the
\* callback exactly once.  explore never changes its slice.
C21_TraversalKeepsStructure ==
    /\ [][prog = "traverse_items" =>
            /\ Len(item') = Len(item)
            /\ item' # item =>
                  /\ pc = "loop" /\ start_index < Len(item)
                  /\ calls' = Append(calls, start_index)
                  /\ item'[start_index + 1] =
                        ApplyOperation(operation, item[start_index + 1], total_price).it
            /\ \A j \in 1..Len(item) :
                  (pc # "loop" \/ j # start_index + 1) => item'[j] = item[j]]_vars
    /\ [][prog = "explore" => location' = location]_vars
    /\ [](prog = "traverse_items" =>
            \A j \in 1..Len(item) :
               /\ item[j] \in [name : ItemNames \cup {ToLowercase(n) : n \in ItemNames},
                               price : ItemPrices \cup {(p * 85) \div 100 : p \in ItemPrices}]
               /\ operation = "lowercase" =>
                     (item[j].name \in {ToLowercase(n) : n \in ItemNames} <=> j <= Len(calls))
               /\ operation = "discount" =>
                     (item[j].price \in {(p * 85) \div 100 : p \in ItemPrices} <=> j <= Len(calls))
               /\ operation = "sum" => item[j] \in SupermarketItem)

C21_Witness ==
    /\ prog = "traverse_items" /\ pc = "done" /\ operation = "discount"
    /\ calls = <<0, 1>>
    /\ item = <<[name |-> "APPLE", price |-> 33915], [name |-> "BANANA", price |-> 25415]>>

\* The sum of the prices of the first k items.
RECURSIVE SumPrices(_, _)
SumPrices(items, k) == IF k = 0 THEN 0 ELSE SumPrices(items, k - 1) + items[k].price

\* The state traverse_items is in after one more step, as a function of the
\* state it is in now.
TraverseSuccessor ==
    CASE pc = "start" -> <<"loop", calls, item, 0, total_price>>
      [] pc = "loop" /\ start_index < Len(item) ->
           LET r == ApplyOperation(operation, item[start_index + 1], total_price)
           IN  <<"loop", Append(calls, start_index),
                 [item EXCEPT ![start_index + 1] = r.it], start_index + 1, r.total>>
      [] pc = "loop" /\ start_index >= Len(item) ->
           <<"done", calls, item, start_index, total_price>>
      [] OTHER -> <<pc, calls, item, start_index, total_price>>

\* C22: traversal is deterministic.  The sequence, the callback and (for
\* explore) the build profile fix the run: every state has at most one
\* successor, the invocation log is 0, 1, 2, ... and the captured state is a
\* function of the input and of the number of invocations made so far, so
\* two runs from equal inputs agree on invocations, final sequence and final
\* captured state.
C22_TraversalIsDeterministic ==
    /\ [](prog = "traverse_items" =>
            /\ ~(ENABLED TraverseStep /\ ENABLED TraverseReturn)
            /\ pc # "start" => calls = Ascending(start_index)
            /\ total_price = IF operation = "sum" THEN SumPrices(item, Len(calls)) ELSE 0
            /\ pc = "done" => Len(calls) = Len(item))
    /\ [][prog = "traverse_items" =>
            <<pc, calls, item, start_index, total_price>>' = TraverseSuccessor]_vars
    /\ [](prog = "explore" =>
            /\ ~(ENABLED ExploreStep /\ ENABLED ExploreReturn)
            /\ calls = Ascending(current_index)
            /\ Len(calls) <= Len(location)
            /\ city_names = IF action = "collect_names"
                               THEN [k \in 1..Len(calls) |-> location[k].name]
                               ELSE <<>>
            /\ total_treasure = IF action = "overwrite" /\ Len(calls) > 0
                                   THEN location[Len(calls)].treasure
                                   ELSE 0
            /\ pc = "done" => Len(calls) = Len(location))
    /\ [][prog = "explore" =>
            /\ location' = location /\ action' = action
            /\ Len(calls') <= Len(calls) + 1]_vars

C22_Witness ==
    /\ prog = "explore" /\ pc = "done" /\ action = "collect_names"
    /\ Len(location) = 3
    /\ location[1].name = "Al ain" /\ location[2].name = "Abu Dhabi"
    /\ location[3].name = "Al ain"
    /\ city_names = <<"Al ain", "Abu Dhabi", "Al ain">>
    /\ calls = <<0, 1, 2>>

\* The sum of the treasures of the first k locations.
RECURSIVE SumTreasures(_, _)
SumTreasures(locs, k) == IF k = 0 THEN 0 ELSE SumTreasures(locs, k - 1) + locs[k].treasure

\* C23: over a non-empty slice, explore with the callback
\* total_treasure = location.treasure returns normally having applied the
\* overwrite once per location in index order, so total_treasure ends as the
\* treasure of the last location (10 for treasures 5, 10) and, with more
\* than one location, not as the sum of the treasures.
C23_OverwriteLeavesLastTreasure ==
    (prog = "explore" /\ action = "overwrite" /\ Len(location) >= 1) =>
        /\ pc # "panicked"
        /\ pc = "loop" =>
              /\ final_index = Len(location) - 1
              /\ Len(calls) >= 1 => total_treasure = location[Len(calls)].treasure
        /\ pc = "done" =>
              /\ calls = Ascending(Len(location))
              /\ total_treasure = location[Len(location)].treasure
              /\ Len(location) >= 2 =>
                    total_treasure # SumTreasures(location, Len(location))
              /\ city_names = <<>>

C23_Witness ==
    /\ prog = "explore" /\ pc = "done" /\ action = "overwrite"
    /\ Len(location) = 2
    /\ location[1] = [name |-> "Abu Dhabi", treasure |-> 5]
    /\ location[2] = [name |-> "Al ain", treasure |-> 10]
    /\ total_treasure = 10 /\ calls = <<0, 1>>

\* C24: in-place retain and filter-then-collect agree.  For every sequence
\* and every predicate whose answer depends on the element alone, the
\* sequence retain leaves equals the Vec that filtering the same input with
\* the same predicate collects; both are [1, 3, 5] for [1, 2, 3, 4, 5] with
\* "is odd".
C24_RetainEqualsFilterCollect ==
    (prog = "retain" /\ pc = "done" /\ predicate \in {"is_odd", "passing", "holding_char"}) =>
        /\ vec = FilterCollect(original, predicate)
        /\ (predicate = "is_odd" /\ original = Example8) =>
              vec = <<1, 3, 5>> /\ FilterCollect(Example8, "is_odd") = <<1, 3, 5>>

C24_Witness ==
    /\ prog = "retain" /\ pc = "done" /\ predicate = "is_odd"
    /\ original = <<1, 2, 3, 4, 5>> /\ vec = <<1, 3, 5>>
    /\ FilterCollect(original, predicate) = <<1, 3, 5>>

\* C25: the fallback resolver is equivalent to the explicit two-branch
\* match.  For every optional value and every fallback, unwrap_or_else and
\* get_or_compute end with the value match v { Some(n) => n, None =>
\* fallback() } yields, after the same number of fallback invocations and the
\* same effect on the captured counter; they panic exactly when the match
\* does.
C25_ResolverEqualsMatch ==
    (prog \in {"get_or_compute", "unwrap_or_else"} /\ pc # "start") =>
        LET m == MatchResolve(cached, compute, 0)
        IN  /\ Len(calls) = m.invocations
            /\ counter = m.counter
            /\ pc = "panicked" <=> m.panics
            /\ pc = "done" <=> ~m.panics
            /\ pc = "done" => resolved = Returned(m.val)
            /\ m.invocations = 1 => calls[1].ret = m.val

C25_Witness ==
    /\ prog = "unwrap_or_else" /\ pc = "done"
    /\ cached = None /\ compute = "constant"
    /\ resolved = Returned(MatchResolve(None, "constant", 0).val)
    /\ Len(calls) = 1 /\ counter = 0

\* C26: working_time, fruits and repeat_3_times each call their callback
\* exactly three times, one call after the other, and what the callback
\* captured accumulates over the calls: after k calls of the pushing closure
\* our_vec holds k twelves ([12, 12, 12] at the end) and after k calls of the
\* incrementing closure count is k (3 at the end).
C26_ThreeCallsAccumulate ==
    /\ [](prog \in {"closure_12_main", "closure_13_main", "repeat_3_times"} =>
            /\ Len(calls) <= 3
            /\ pc = "done" => Len(calls) = 3
            /\ \A k \in 1..Len(calls) :
                  /\ calls[k].arg = <<>> /\ calls[k].ret = <<>>
                  /\ calls[k].f = (CASE prog = "closure_12_main" -> "time"
                                      [] prog = "closure_13_main" -> "organic_fruits"
                                      [] prog = "repeat_3_times" -> "action")
            /\ prog = "closure_12_main" =>
                  captured_vec = [k \in 1..Len(calls) |-> 12] /\ captured_count = 0
            /\ prog = "repeat_3_times" =>
                  captured_count = Len(calls) /\ captured_vec = <<>>
            /\ prog = "closure_13_main" =>
                  captured_count = 0 /\ captured_vec = <<>>)
    /\ [][(prog \in {"closure_12_main", "closure_13_main", "repeat_3_times"}) =>
            /\ Len(calls') <= Len(calls) + 1
            /\ SubSeq(calls', 1, Len(calls)) = calls]_vars

C26_Witness ==
    /\ prog = "closure_12_main" /\ pc = "done"
    /\ Len(calls) = 3 /\ calls[3].f = "time"
    /\ captured_vec = <<12, 12, 12>>

\* C27: in example_2_fnmut_trait the captured counter persists across the
\* calls of increment: the n-th call sets counter to n and returns x + n.
\* The three direct calls take 10, 20, 30; when counter is printed it is 3;
\* apply_function_mut(&mut increment, 5) then calls the closure exactly twice
\* more, with 5 and then 6, and counter ends at 5.
C27_CounterPersistsAcrossCalls ==
    prog = "example_2_fnmut_trait" =>
        /\ captured_count = Len(calls)
        /\ Len(calls) <= 5
        /\ \A n \in 1..Len(calls) :
              /\ calls[n].f = "increment"
              /\ calls[n].arg = << <<10, 20, 30, 5, 6>>[n] >>
              /\ calls[n].ret = << calls[n].arg[1] + n >>
        /\ (pc = "run" /\ position <= Len(Example2FnMutTrait)
               /\ Example2FnMutTrait[position].op = "read") =>
              captured_count = 3 /\ Len(calls) = 3
        /\ (pc = "run" /\ position <= Len(Example2FnMutTrait)
               /\ Example2FnMutTrait[position].src \in {165, 166}) => Len(calls) >= 3
        /\ pc = "done" =>
              /\ captured_count = 5
              /\ Len(calls) = 5
              /\ calls[4].ret = <<9>> /\ calls[5].ret = <<11>>

C27_Witness ==
    /\ prog = "example_2_fnmut_trait" /\ pc = "done"
    /\ captured_count = 5
    /\ calls[3] = [f |-> "increment", arg |-> <<30>>, ret |-> <<33>>]
    /\ calls[5] = [f |-> "increment", arg |-> <<6>>, ret |-> <<11>>]

\* The vector closure_4_mutations main ends with.
Closure4Final == <<1, 2, 31, 45, 45, 40, 90, 31, 31, 80, 80, 80>>

\* C28: in closure_4_mutations main the direct push and the successive
\* closures append to num in program order and nothing else modifies it:
\* num only ever grows by one element at its end, it is always a prefix of
\* the final vector, index is num[2] = 31, and from [1, 2, 31, 45, 45, 40]
\* the final vector is [1, 2, 31, 45, 45, 40, 90, 31, 31, 80, 80, 80].
C28_Closure4AppendsInProgramOrder ==
    /\ [](prog = "closure_4_main" =>
            /\ pc # "panicked"
            /\ Len(captured_vec) >= 6 /\ Len(captured_vec) <= Len(Closure4Final)
            /\ captured_vec = SubSeq(Closure4Final, 1, Len(captured_vec))
            /\ Len(captured_vec) = 6 + Len(calls) + (IF position > 1 THEN 1 ELSE 0)
            /\ position > 2 => index = 31
            /\ pc = "done" => captured_vec = Closure4Final /\ Len(calls) = 5)
    /\ [][prog = "closure_4_main" =>
            \/ captured_vec' = captured_vec
            \/ /\ Len(captured_vec') = Len(captured_vec) + 1
               /\ SubSeq(captured_vec', 1, Len(captured_vec)) = captured_vec
               /\ Program(prog)[position].op \in {"push", "call"}]_vars

C28_Witness ==
    /\ prog = "closure_4_main" /\ pc = "done"
    /\ index = 31 /\ Len(calls) = 5
    /\ captured_vec = <<1, 2, 31, 45, 45, 40, 90, 31, 31, 80, 80, 80>>

\* C29: checkout invokes its operation exactly once and hands it the whole
\* cart, the same items in the same order as before the call; from the call
\* on main never owns the cart again; the traverse_items made inside the
\* operation visits every item once, in order, so the accumulating callback
\* ends with the sum of all item prices.
C29_CheckoutConsumesCartOnce ==
    /\ [](prog = "checkout" =>
            /\ Len(checkout_calls) <= 1
            /\ cart_owner = "main" <=> pc = "start"
            /\ pc = "start" <=> checkout_calls = <<>>
            /\ pc # "start" => checkout_calls = <<item>>
            /\ pc = "loop" =>
                  calls = Ascending(start_index) /\ total_price = SumPrices(item, start_index)
            /\ pc = "done" =>
                  /\ cart_owner = "nobody"
                  /\ calls = Ascending(Len(item))
                  /\ total_price = SumPrices(item, Len(item))
                  /\ ~ENABLED CheckoutCall)
    /\ [][prog = "checkout" =>
            /\ item' = item
            /\ checkout_calls' # checkout_calls => checkout_calls' = <<item>>
            /\ cart_owner # "main" => cart_owner' # "main"]_vars

C29_Witness ==
    /\ prog = "checkout" /\ pc = "done" /\ cart_owner = "nobody"
    /\ item = <<[name |-> "APPLE", price |-> 39900], [name |-> "BANANA", price |-> 29900]>>
    /\ checkout_calls = <<item>>
    /\ calls = <<0, 1>> /\ total_price = 69800

\* C30: apply_many(f, count) and apply_mut_times(f, count) call f exactly
\* count times, with 0, 1, ..., count - 1 in ascending order, and not at all
\* when count <= 0; with the callback total += x the total after n calls is
\* 0 + 1 + ... + (n - 1), which is 6 for count = 4.
C30_ApplyCallsCountTimesAscending ==
    prog = "apply" =>
        /\ Len(calls) = range_next
        /\ \A k \in 1..Len(calls) :
              /\ calls[k].arg = <<k - 1>>
              /\ calls[k].ret = IF applier = "apply_many" THEN <<(k - 1) * 3>> ELSE <<>>
        /\ count <= 0 => calls = <<>>
        /\ count > 0 => Len(calls) <= count
        /\ apply_total = IF applier = "apply_mut_times"
                            THEN (Len(calls) * (Len(calls) - 1)) \div 2
                            ELSE 0
        /\ pc = "done" =>
              /\ Len(calls) = IF count > 0 THEN count ELSE 0
              /\ (applier = "apply_mut_times" /\ count = 4) => apply_total = 6

C30_Witness ==
    /\ prog = "apply" /\ pc = "done"
    /\ applier = "apply_mut_times" /\ count = 4
    /\ Len(calls) = 4 /\ calls[4].arg = <<3>>
    /\ apply_total = 6

\* C8: explore on an empty location slice invokes the action zero times and
\* returns normally (it never panics).
C8_EmptyExploreReturnsNormally ==
    (prog = "explore" /\ Len(location) = 0) =>
        /\ calls = <<>>
        /\ pc # "panicked"

\* C9: traverse_items on a cart with no items invokes the operation zero
\* times, never panics, and returns with the cart still empty.
C9_EmptyTraverseReturnsNormally ==
    (prog = "traverse_items" /\ Len(item) = 0) =>
        /\ calls = <<>>
        /\ pc # "panicked"
        /\ pc = "loop" => ENABLED TraverseReturn
        /\ pc = "done" => item = <<>> /\ total_price = 0

C9_Witness ==
    prog = "traverse_items" /\ pc = "done" /\ item = <<>> /\ calls = <<>>

====
